---- MODULE Spec2Model ----
(***************************************************************************)
(* A model of lifegame-rust: the World engine of lifegame-core (lib.rs)    *)
(* and the App shell of lifegame-tui (app.rs, handler.rs, main.rs).        *)
(*                                                                         *)
(* A BitVec is modelled as a sequence of BOOLEAN; bit i of the BitVec is   *)
(* element i + 1 of the sequence.  A Rust panic is the value Panic.        *)
(***************************************************************************)
EXTENDS Integers, Sequences, FiniteSets, TLC

VARIABLES
    nx,       \* World.nx
    ny,       \* World.ny
    cells,    \* World.cells
    border,   \* World.border
    built,    \* TRUE once World::new has returned Ok
    input,    \* SpecNew: the vector the World::new call of the behaviour was given
    op,       \* name of the last call
    args,     \* its arguments
    ret,      \* its result
    pre,      \* self.cells as the last next() found it
    counts,   \* num_alive_neighbours of every cell in the last next(),
              \* by bit index + 1
    pc,       \* SpecStep: where World::next is ("idle", "loop", "panicked")
    loop_ix,  \* SpecStep: ix of the loops of World::next
    loop_iy,  \* SpecStep: iy of the loops of World::next
    next_cells, \* SpecStep: the local next_cells of World::next
    gen,      \* App.gen
    state,    \* App.state
    app_nx,   \* App.nx
    app_ny,   \* App.ny
    rendering_ix, \* App.rendering_ix
    rendering_iy, \* App.rendering_iy
    calls,    \* number of next() calls on App.world since World::new built it
    twin      \* SpecTwin: a second World, built by a World::new call of its own

worldVars == <<nx, ny, cells, border, built, input>>
callVars == <<op, args, ret>>
logVars == <<pre, counts>>
loopVars == <<pc, loop_ix, loop_iy, next_cells>>
appVars == <<gen, state, app_nx, app_ny, rendering_ix, rendering_iy, calls>>
vars == <<nx, ny, cells, border, built, input, op, args, ret, pre, counts,
          pc, loop_ix, loop_iy, next_cells,
          gen, state, app_nx, app_ny, rendering_ix, rendering_iy, calls,
          twin>>

(***************************************************************************)
(* Bounds of the model.                                                    *)
(***************************************************************************)
\* SpecNew: largest nx, ny passed to World::new and to cell()
MaxDim == 2
\* SpecNew: longest cells vector passed to World::new
MaxLen == 5
\* SpecBorder: largest grid, and largest |coordinate| passed to
\* get_cell_with_border
BNx == 3
BNy == 1
BC == 4
\* Spec: largest extents and largest number of cells of a grid
MaxNx == 3
MaxNy == 3
MaxCells == 9
\* SpecStep: largest grid
SNx == 2
SNy == 2
\* SpecApp: the extents of the App's grid, (120, 60) in App::default
AppNx == 2
AppNy == 1
\* SpecApp: largest gen a tick is taken from, largest rendering offset an
\* arrow key is taken from, largest |shift| passed to pan_x and pan_y
MaxGen == 2
MaxPan == 2
MaxShift == 1
\* SpecLegacy: largest nx, ny passed to the World::new of legacy.rs
LNx == 2
LNy == 2
\* SpecView: largest width and height of the area the World is drawn in
MaxView == 2

(***************************************************************************)
(* lifegame-core/src/lib.rs                                                *)
(***************************************************************************)
CELL_DEAD == FALSE
CELL_ALIVE == TRUE

Plane == "Plane"
Torus == "Torus"
WorldBound == {Plane, Torus}

\* results of calls
Ok(v) == [kind |-> "ok", v |-> v]
Err(msg) == [kind |-> "err", msg |-> msg]
Panic == [kind |-> "panic"]
Unit == [kind |-> "unit"]

\* all Vec<bool> of length n
BoolSeqs(n) == [1..n -> BOOLEAN]

\* Rust's % on isize: the remainder truncates toward zero (bound > 0)
rem(a, b) == IF a >= 0 THEN a % b ELSE -((-a) % b)

\* isize::abs
abs(a) == IF a < 0 THEN -a ELSE a

get_index_with_cyclic_bound_no_shift(ix, bound) ==
    IF ix < 0 THEN abs(rem(ix, bound))
    ELSE IF ix >= bound THEN rem(ix, bound)
    ELSE ix

get_index_with_cyclic_bound_clamping(ix, bound) ==
    IF ix < 0 THEN abs(rem(ix + bound, bound))
    ELSE IF ix >= bound THEN bound - 1
    ELSE ix

get_index_with_cyclic_bound_truncating(ix, bound) ==
    IF ix < 0 THEN rem(ix, bound)
    ELSE IF ix >= bound THEN rem(ix, bound)
    ELSE ix

get_index_with_cyclic_bound_rotating(ix, bound) ==
    IF ix < 0 THEN abs(rem(ix + bound, bound))
    ELSE IF ix >= bound THEN rem(ix, bound)
    ELSE rem(ix + 1, bound)

get_index_with_cyclic_bound(ix, bound) ==
    IF ix < 0 THEN abs(rem(ix + bound, bound))
    ELSE IF ix >= bound THEN rem(ix, bound)
    ELSE ix

\* to_bitvec: push every bit, in order, on an empty BitVec
RECURSIVE to_bitvec(_)
to_bitvec(bits) ==
    IF Len(bits) = 0 THEN <<>>
    ELSE Append(to_bitvec(SubSeq(bits, 1, Len(bits) - 1)), bits[Len(bits)])

\* the World the variables hold (&self)
self == [nx |-> nx, ny |-> ny, cells |-> cells, border |-> border]

new_lenient(n_x, n_y, c) ==
    IF Len(c) < n_x * n_y
    THEN Err("invalid cell size.")
    ELSE Ok([nx |-> n_x, ny |-> n_y,
             cells |-> to_bitvec(SubSeq(c, 1, n_x * n_y)), border |-> Plane])

\* World::new
new(n_x, n_y, c) ==
    IF Len(c) # n_x * n_y
    THEN Err("invalid cell size.")
    ELSE Ok([nx |-> n_x, ny |-> n_y, cells |-> to_bitvec(c), border |-> Plane])

bit_index_by_ny(w, ix, iy) == iy * w.ny + ix

\* World::bit_index
bit_index(w, ix, iy) == iy * w.nx + ix

\* BitVec's Index: cells[i] panics ("index out of bounds") unless i < len.
\* A negative isize cast to usize is at least 2^63, so it is out of bounds.
bitvec_index(bv, i) ==
    IF i >= 0 /\ i < Len(bv) THEN Ok(bv[i + 1]) ELSE Panic

\* World::cell
cell(w, ix, iy) ==
    IF ix < 0 \/ iy < 0 THEN Panic
    ELSE bitvec_index(w.cells, bit_index(w, ix, iy))

get_cell_with_border_off_by_one(w, ix, iy) ==
    IF w.border = Plane
    THEN IF ix < 0 \/ iy < 0 \/ ix > w.nx \/ iy > w.ny
         THEN Ok(CELL_DEAD)
         ELSE cell(w, ix, iy)
    ELSE cell(w, get_index_with_cyclic_bound(ix, w.nx),
                 get_index_with_cyclic_bound(iy, w.ny))

get_cell_with_border_plane_wrapping(w, ix, iy) ==
    cell(w, get_index_with_cyclic_bound(ix, w.nx),
            get_index_with_cyclic_bound(iy, w.ny))

\* World::get_cell_with_border (ix, iy are isize)
get_cell_with_border(w, ix, iy) ==
    IF w.border = Plane
    THEN IF ix < 0 \/ iy < 0 \/ ix >= w.nx \/ iy >= w.ny
         THEN Ok(CELL_DEAD)
         ELSE cell(w, ix, iy)
    ELSE cell(w, get_index_with_cyclic_bound(ix, w.nx),
                 get_index_with_cyclic_bound(iy, w.ny))

\* World::neighbours: the bitmap of the 8 Moore neighbours, NW N NE W E SW S SE
neighbours(w, ix, iy) ==
    LET looked == << get_cell_with_border(w, ix - 1, iy - 1),
                     get_cell_with_border(w, ix, iy - 1),
                     get_cell_with_border(w, ix + 1, iy - 1),
                     get_cell_with_border(w, ix - 1, iy),
                     get_cell_with_border(w, ix + 1, iy),
                     get_cell_with_border(w, ix - 1, iy + 1),
                     get_cell_with_border(w, ix, iy + 1),
                     get_cell_with_border(w, ix + 1, iy + 1) >>
    IN  IF \E i \in 1..8 : looked[i].kind = "panic"
        THEN Panic
        ELSE Ok(to_bitvec([i \in 1..8 |-> looked[i].v]))

\* bitmap.iter().filter(|x| *x).count()
count_set(bitmap) == Cardinality({i \in 1..Len(bitmap) : bitmap[i]})

next_state_born_on_two(c, num_alive_neighbours) ==
    IF c = CELL_DEAD
    THEN IF num_alive_neighbours = 2 THEN CELL_ALIVE ELSE CELL_DEAD
    ELSE IF num_alive_neighbours <= 1 THEN CELL_DEAD
         ELSE IF num_alive_neighbours = 2 \/ num_alive_neighbours = 3
              THEN CELL_ALIVE
              ELSE CELL_DEAD

next_state_born_on_zero(c, num_alive_neighbours) ==
    IF c = CELL_DEAD
    THEN IF num_alive_neighbours = 3 \/ num_alive_neighbours = 0
         THEN CELL_ALIVE
         ELSE CELL_DEAD
    ELSE IF num_alive_neighbours <= 1 THEN CELL_DEAD
         ELSE IF num_alive_neighbours = 2 \/ num_alive_neighbours = 3
              THEN CELL_ALIVE
              ELSE CELL_DEAD

\* the match of World::next on the cell's state
next_state(c, num_alive_neighbours) ==
    IF c = CELL_DEAD
    THEN IF num_alive_neighbours = 3 THEN CELL_ALIVE ELSE CELL_DEAD
    ELSE IF num_alive_neighbours <= 1 THEN CELL_DEAD
         ELSE IF num_alive_neighbours = 2 \/ num_alive_neighbours = 3
              THEN CELL_ALIVE
              ELSE CELL_DEAD

\* BitVec::set: panics unless i < len
bitvec_set(bv, i, x) ==
    IF i >= 0 /\ i < Len(bv) THEN Ok([bv EXCEPT ![i + 1] = x]) ELSE Panic

from_elem_longer(n, x) == [i \in 1..(n + 1) |-> x]

\* BitVec::from_elem(n, false)
from_elem(n, x) == [i \in 1..n |-> x]

\* the body of the loops of World::next for cell (ix, iy), next_cells
\* being buf: the new next_cells and the count it used, or a panic
next_body(w, buf, ix, iy) ==
    LET c == cell(w, ix, iy)
        nb == neighbours(w, ix, iy)
    IN  IF c.kind = "panic" \/ nb.kind = "panic" THEN Panic
        ELSE LET num_alive_neighbours == count_set(nb.v)
                 set == bitvec_set(buf, bit_index(w, ix, iy),
                                   next_state(c.v, num_alive_neighbours))
             IN  IF set.kind = "panic" THEN Panic
                 ELSE Ok([next_cells |-> set.v, n |-> num_alive_neighbours])

\* the loops of World::next from their k-th iteration on (iy outer, ix
\* inner: iteration k is cell (k % nx, k \div nx)); acc holds next_cells
\* and the counts used so far
RECURSIVE next_loop(_, _, _)
next_loop(w, acc, k) ==
    IF k >= w.nx * w.ny THEN Ok(acc)
    ELSE LET ix == k % w.nx
             iy == k \div w.nx
             b == next_body(w, acc.next_cells, ix, iy)
         IN  IF b.kind = "panic" THEN Panic
             ELSE next_loop(w, [next_cells |-> b.v.next_cells,
                                counts |-> Append(acc.counts, b.v.n)], k + 1)

\* World::next: the World's new cells and the counts used, or a panic
next(w) ==
    next_loop(w, [next_cells |-> from_elem(Len(w.cells), FALSE),
                  counts |-> <<>>], 0)

NoLog == pre = <<>> /\ counts = <<>>

\* there is no App
NoApp ==
    /\ gen = 0 /\ state = "none" /\ app_nx = 0 /\ app_ny = 0
    /\ rendering_ix = 0 /\ rendering_iy = 0 /\ calls = 0

\* there is no second World
None == [kind |-> "none"]
NoTwin == twin = None

\* World::next is not running
NoLoop == pc = "idle" /\ loop_ix = 0 /\ loop_iy = 0 /\ next_cells = <<>>

(***************************************************************************)
(* SpecNew: construction and direct cell access.                           *)
(***************************************************************************)
InitNew ==
    /\ nx = 0 /\ ny = 0 /\ cells = <<>> /\ border = Plane
    /\ built = FALSE /\ input = <<>>
    /\ op = "none" /\ args = <<>> /\ ret = Unit
    /\ NoLog /\ NoLoop /\ NoApp /\ NoTwin

\* let world = World::new(n_x, n_y, c)
New(n_x, n_y, c) ==
    /\ ~built
    /\ op' = "new" /\ args' = <<n_x, n_y, c>>
    /\ LET r == new(n_x, n_y, c) IN
        IF r.kind = "ok"
        THEN /\ nx' = r.v.nx /\ ny' = r.v.ny /\ cells' = r.v.cells
             /\ border' = r.v.border
             /\ built' = TRUE /\ input' = c
             /\ ret' = Ok("World")
        ELSE /\ ret' = r
             /\ UNCHANGED worldVars
    /\ UNCHANGED <<logVars, loopVars>>
    /\ UNCHANGED <<appVars, twin>>

\* world.cell(ix, iy)
Cell(ix, iy) ==
    /\ built
    /\ op' = "cell" /\ args' = <<ix, iy>>
    /\ ret' = cell(self, ix, iy)
    /\ UNCHANGED <<worldVars, logVars, loopVars>>
    /\ UNCHANGED <<appVars, twin>>

NextNew ==
    \/ \E n_x \in 0..MaxDim, n_y \in 0..MaxDim, len \in 0..MaxLen :
          \E c \in BoolSeqs(len) : New(n_x, n_y, c)
    \/ \E ix \in 0..(MaxDim + 1), iy \in 0..(MaxDim + 1) : Cell(ix, iy)

SpecNew == InitNew /\ [][NextNew]_vars

(***************************************************************************)
(* C3: construction round-trip.  World::new succeeds on every input whose  *)
(* length is nx*ny, and afterwards cell(ix, iy) returns the input's        *)
(* element iy*nx + ix for every in-range coordinate.                       *)
(***************************************************************************)
C3_RoundTrip ==
    /\ (op = "new" /\ Len(args[3]) = args[1] * args[2])
          => (ret.kind = "ok" /\ built /\ nx = args[1] /\ ny = args[2])
    /\ (op = "cell" /\ args[1] < nx /\ args[2] < ny)
          => ret = Ok(input[args[2] * nx + args[1] + 1])

C3_Witness ==
    /\ op = "cell" /\ nx = 2 /\ ny = 2 /\ args = <<1, 1>>
    /\ input = <<FALSE, FALSE, FALSE, TRUE>>
    /\ ret = Ok(TRUE)

(***************************************************************************)
(* C4: World::new fails on every input whose length differs from nx*ny,    *)
(* shorter or longer, and builds no World.                                 *)
(***************************************************************************)
C4_InvalidSize ==
    (op = "new" /\ Len(args[3]) # args[1] * args[2])
        => (ret.kind = "err" /\ ~built /\ cells = <<>> /\ input = <<>>)

C4_Witness ==
    /\ op = "new" /\ args[1] = 2 /\ args[2] = 2 /\ Len(args[3]) = 5
    /\ ret.kind = "err" /\ ~built

(***************************************************************************)
(* SpecBorder: neighbour resolution on a constructed World.  The World is  *)
(* any World that World::new returns for 1 <= nx <= BNx, 1 <= ny <= BNy.   *)
(***************************************************************************)
ValidWorld(lo, mx, my, mc) ==
    /\ nx \in lo..mx /\ ny \in lo..my
    /\ nx * ny <= mc
    /\ \E c \in BoolSeqs(nx * ny) :
          /\ new(nx, ny, c).kind = "ok"
          /\ cells = new(nx, ny, c).v.cells
          /\ border = new(nx, ny, c).v.border
          /\ args = <<nx, ny, c>>
    /\ built = TRUE /\ input = <<>>
    /\ op = "new" /\ ret = Ok("World")
    /\ NoLog /\ NoLoop /\ NoApp

InitBorder == ValidWorld(1, BNx, BNy, BNx * BNy) /\ NoTwin

Border_clearing(b) ==
    /\ built /\ pc = "idle"
    /\ border' = b
    /\ cells' = [i \in 1..Len(cells) |-> CELL_DEAD]
    /\ op' = "border" /\ args' = <<b>> /\ ret' = Unit
    /\ UNCHANGED <<nx, ny, built, input, logVars, loopVars>>
    /\ UNCHANGED <<appVars, twin>>

\* world.border(b)
Border(b) ==
    /\ built /\ pc = "idle"
    /\ border' = b
    /\ op' = "border" /\ args' = <<b>> /\ ret' = Unit
    /\ UNCHANGED <<nx, ny, cells, built, input, logVars, loopVars>>
    /\ UNCHANGED <<appVars, twin>>

\* world.get_cell_with_border(ix, iy)
GetCellWithBorder(ix, iy) ==
    /\ built
    /\ op' = "get_cell_with_border" /\ args' = <<ix, iy>>
    /\ ret' = get_cell_with_border(self, ix, iy)
    /\ UNCHANGED <<worldVars, logVars, loopVars>>
    /\ UNCHANGED <<appVars, twin>>

NextBorder ==
    \/ \E b \in WorldBound : Border(b)
    \/ \E ix \in (-BC)..BC, iy \in (-BC)..BC : GetCellWithBorder(ix, iy)

SpecBorder == InitBorder /\ [][NextBorder]_vars

\* the spec's resolution of coordinate c on an axis with bound b, with
\* % the truncating remainder
ProperMod(c, b) == rem(rem(c, b) + b, b)

(***************************************************************************)
(* C6 as claimed: under Torus, get_cell_with_border(ix, iy) reads the cell *)
(* at (ProperMod(ix, nx), ProperMod(iy, ny)) for every signed ix, iy.      *)
(***************************************************************************)
C6_TorusProperModulo ==
    (op = "get_cell_with_border" /\ border = Torus)
        => ret = Ok(cells[ProperMod(args[2], ny) * nx + ProperMod(args[1], nx) + 1])

(***************************************************************************)
(* C6 amended: under Torus, get_cell_with_border(ix, iy) reads the cell at *)
(* (ProperMod(ix, nx), ProperMod(iy, ny)) for every signed ix >= -nx and   *)
(* iy >= -ny.                                                              *)
(***************************************************************************)
C6_TorusModuloFromMinusBound ==
    (op = "get_cell_with_border" /\ border = Torus
        /\ args[1] >= -nx /\ args[2] >= -ny)
        => ret = Ok(cells[ProperMod(args[2], ny) * nx + ProperMod(args[1], nx) + 1])

C6_Witness ==
    /\ op = "get_cell_with_border" /\ border = Torus
    /\ nx = 3 /\ cells = <<FALSE, FALSE, TRUE>>
    /\ args = <<-1, -1>> /\ ret = Ok(TRUE)

(***************************************************************************)
(* C7: under Plane, get_cell_with_border(ix, iy) returns Dead for every    *)
(* coordinate outside [0,nx) x [0,ny) and the stored cell (ix, iy) for     *)
(* every coordinate inside, whatever the grid content.                     *)
(***************************************************************************)
C7_PlaneResolution ==
    (op = "get_cell_with_border" /\ border = Plane)
        => IF args[1] < 0 \/ args[2] < 0 \/ args[1] >= nx \/ args[2] >= ny
           THEN ret = Ok(CELL_DEAD)
           ELSE ret = Ok(cells[args[2] * nx + args[1] + 1])

C7_Witness ==
    /\ op = "get_cell_with_border" /\ border = Plane
    /\ nx = 3 /\ cells = <<TRUE, TRUE, TRUE>>
    /\ args = <<3, 0>> /\ ret = Ok(CELL_DEAD)

(***************************************************************************)
(* Spec: the life of a World: any World that World::new returns for        *)
(* 0 <= nx <= MaxNx, 0 <= ny <= MaxNy, nx*ny <= MaxCells, then next() and  *)
(* border() in any order.                                                  *)
(***************************************************************************)
Init == ValidWorld(0, MaxNx, MaxNy, MaxCells) /\ NoTwin

\* world.next()
NextGen ==
    /\ built
    /\ op' = "next" /\ args' = <<>>
    /\ \E r \in {next(self)} :
        IF r.kind = "panic"
        THEN /\ ret' = Panic
             /\ UNCHANGED <<cells, logVars>>
        ELSE /\ ret' = Unit
             /\ cells' = r.v.next_cells
             /\ pre' = cells
             /\ counts' = r.v.counts
    /\ UNCHANGED <<nx, ny, border, built, input, loopVars>>
    /\ UNCHANGED <<appVars, twin>>

Next ==
    \/ NextGen
    \/ \E b \in WorldBound : Border(b)

Spec == Init /\ [][Next]_vars

\* the 8 Moore-neighbourhood offsets
Offsets == {d \in (-1..1) \X (-1..1) : d # <<0, 0>>}

\* the spec's neighbour resolution (4.3) of signed (x, y) on matrix c
Resolve(c, mode, x, y) ==
    IF mode = Plane
    THEN IF x < 0 \/ y < 0 \/ x >= nx \/ y >= ny
         THEN CELL_DEAD
         ELSE c[y * nx + x + 1]
    ELSE c[(y % ny) * nx + (x % nx) + 1]

\* the spec's count (4.4 step 2) for cell (x, y) of matrix c
AliveCount(c, mode, x, y) ==
    Cardinality({d \in Offsets : Resolve(c, mode, x + d[1], y + d[2])})

(***************************************************************************)
(* C1: after next(), every in-grid cell (x, y) is Alive iff its count is 3 *)
(* or its count is 2 and it was Alive before the call, the count being     *)
(* the number of Alive cells among the 8 Moore offsets resolved on the     *)
(* pre-call matrix under the boundary mode in force; next() has then been  *)
(* called under both Plane and Torus on every grid content.                *)
(***************************************************************************)
C1_Rule ==
    op = "next" =>
        /\ ret = Unit
        /\ \A x \in 0..(nx - 1), y \in 0..(ny - 1) :
              LET n == AliveCount(pre, border, x, y) IN
              cells[y * nx + x + 1] = (n = 3 \/ (n = 2 /\ pre[y * nx + x + 1]))

\* rule_dead_with_overpopulated (lib.rs:281) has run
C1_Witness ==
    /\ op = "next" /\ nx = 3 /\ ny = 3 /\ border = Plane
    /\ pre = <<TRUE, TRUE, TRUE, TRUE, TRUE, FALSE, FALSE, FALSE, FALSE>>
    /\ cells = <<TRUE, FALSE, TRUE, TRUE, FALSE, TRUE, FALSE, FALSE, FALSE>>

(***************************************************************************)
(* C8: under Torus next() never reads outside the grid, and the count it   *)
(* uses for cell (x, y) is the number of offsets (dx, dy) of the Moore     *)
(* neighbourhood whose cell ((x+dx) mod nx, (y+dy) mod ny) was Alive, a    *)
(* cell counting once per offset that wraps onto it.  Holding for every    *)
(* grid content, this fixes the cells the 8 lookups read.                  *)
(***************************************************************************)
C8_TorusCounts ==
    (op = "next" /\ border = Torus) =>
        /\ ret = Unit
        /\ Len(counts) = nx * ny
        /\ \A x \in 0..(nx - 1), y \in 0..(ny - 1) :
              counts[y * nx + x + 1] =
                  Cardinality({d \in Offsets :
                      pre[((y + d[2]) % ny) * nx + ((x + d[1]) % nx) + 1]})

\* test_neighbour's torus grid [1,0 / 0,1]: cell (0,0) counts (1,1) four times
C8_Witness ==
    /\ op = "next" /\ border = Torus /\ nx = 2 /\ ny = 2
    /\ pre = <<TRUE, FALSE, FALSE, TRUE>>
    /\ counts[1] = 4

(***************************************************************************)
(* C9: border(mode) sets the boundary mode and changes neither nx, ny nor  *)
(* any stored cell, and what a next() makes of the grid is decided by the  *)
(* cell matrix and the mode in force at that call alone, whatever mode     *)
(* switches came before.                                                   *)
(***************************************************************************)
C9_BorderStep ==
    op' = "border" =>
        (border' = args'[1] /\ nx' = nx /\ ny' = ny /\ cells' = cells)

C9_NextStep ==
    (op' = "next" /\ ret' = Unit) =>
        /\ border' = border
        /\ \A x \in 0..(nx - 1), y \in 0..(ny - 1) :
              LET n == AliveCount(cells, border, x, y) IN
              cells'[y * nx + x + 1] = (n = 3 \/ (n = 2 /\ cells[y * nx + x + 1]))

C9_BorderFrame == [][C9_BorderStep]_vars /\ [][C9_NextStep]_vars

\* border(Plane) after a next() that ran under Torus
C9_Witness ==
    /\ op = "border" /\ border = Plane /\ nx = 2 /\ ny = 2
    /\ pre = <<TRUE, FALSE, FALSE, FALSE>>
    /\ counts = <<0, 2, 2, 4>>
    /\ cells = <<FALSE, FALSE, FALSE, FALSE>>

(***************************************************************************)
(* SpecStep: World::next one loop iteration at a time, on any World that   *)
(* World::new returns for 0 <= nx <= SNx, 0 <= ny <= SNy, with border()    *)
(* between calls.                                                          *)
(***************************************************************************)
InitStep == ValidWorld(0, SNx, SNy, SNx * SNy) /\ NoTwin

\* no iteration of the loops of World::next is left
loops_done == loop_iy >= ny \/ nx = 0

\* world.next() is called: let mut next_cells = BitVec::from_elem(..)
StepBegin ==
    /\ built /\ pc = "idle"
    /\ pc' = "loop"
    /\ next_cells' = from_elem(Len(cells), FALSE)
    /\ loop_iy' = 0 /\ loop_ix' = 0
    /\ pre' = cells /\ counts' = <<>>
    /\ op' = "next" /\ args' = <<>> /\ ret' = [kind |-> "running"]
    /\ UNCHANGED worldVars
    /\ UNCHANGED <<appVars, twin>>

StepCell_in_place ==
    /\ pc = "loop" /\ ~loops_done
    /\ \E b \in {next_body(self, cells, loop_ix, loop_iy)} :
        IF b.kind = "panic"
        THEN /\ pc' = "panicked" /\ ret' = Panic
             /\ UNCHANGED <<loop_ix, loop_iy, next_cells, counts, cells>>
        ELSE /\ cells' = b.v.next_cells
             /\ next_cells' = b.v.next_cells
             /\ counts' = Append(counts, b.v.n)
             /\ IF loop_ix + 1 < nx
                THEN loop_ix' = loop_ix + 1 /\ loop_iy' = loop_iy
                ELSE loop_ix' = 0 /\ loop_iy' = loop_iy + 1
             /\ UNCHANGED <<pc, ret>>
    /\ UNCHANGED <<nx, ny, border, built, input, pre, op, args>>
    /\ UNCHANGED <<appVars, twin>>

\* one pass of the body of the loops, for cell (loop_ix, loop_iy)
StepCell ==
    /\ pc = "loop" /\ ~loops_done
    /\ \E b \in {next_body(self, next_cells, loop_ix, loop_iy)} :
        IF b.kind = "panic"
        THEN /\ pc' = "panicked" /\ ret' = Panic
             /\ UNCHANGED <<loop_ix, loop_iy, next_cells, counts>>
        ELSE /\ next_cells' = b.v.next_cells
             /\ counts' = Append(counts, b.v.n)
             /\ IF loop_ix + 1 < nx
                THEN loop_ix' = loop_ix + 1 /\ loop_iy' = loop_iy
                ELSE loop_ix' = 0 /\ loop_iy' = loop_iy + 1
             /\ UNCHANGED <<pc, ret>>
    /\ UNCHANGED <<worldVars, pre, op, args>>
    /\ UNCHANGED <<appVars, twin>>

\* the loops are over: self.cells = next_cells, and next() returns
StepSwap ==
    /\ pc = "loop" /\ loops_done
    /\ cells' = next_cells
    /\ pc' = "idle" /\ next_cells' = <<>> /\ loop_ix' = 0 /\ loop_iy' = 0
    /\ ret' = Unit
    /\ UNCHANGED <<nx, ny, border, built, input, op, args, logVars>>
    /\ UNCHANGED <<appVars, twin>>

NextStep ==
    \/ StepBegin
    \/ StepCell
    \/ StepSwap
    \/ \E b \in WorldBound : Border(b)

SpecStep == InitStep /\ [][NextStep]_vars

\* the state the rule (4.4 step 3) gives cell number k of matrix c
RuleAt(c, mode, k) ==
    LET n == AliveCount(c, mode, k % nx, k \div nx) IN
    n = 3 \/ (n = 2 /\ c[k + 1])

(***************************************************************************)
(* C2: while next() runs, self.cells stays the pre-call matrix; every      *)
(* write goes to next_cells, where each cell already processed holds the   *)
(* rule's result on the pre-call matrix and the others are untouched;      *)
(* self.cells changes in one step only, the one that ends the call after   *)
(* the last cell, and between calls it is the pre-call matrix or the       *)
(* whole new generation, never a mix.                                      *)
(***************************************************************************)
C2_WhileRunning ==
    pc = "loop" =>
        /\ cells = pre
        /\ Len(next_cells) = Len(cells)
        /\ \A k \in 0..(nx * ny - 1) :
              next_cells[k + 1] =
                  IF k < loop_iy * nx + loop_ix
                  THEN RuleAt(pre, border, k)
                  ELSE FALSE

\* next() has returned and nothing was called since
C2_BetweenCalls ==
    (pc = "idle" /\ op = "next") =>
        \A k \in 0..(nx * ny - 1) : cells[k + 1] = RuleAt(pre, border, k)

C2_SwapStep ==
    cells' # cells =>
        (pc = "loop" /\ loops_done /\ pc' = "idle" /\ cells' = next_cells)

C2_SimultaneousUpdate ==
    /\ [](C2_WhileRunning /\ C2_BetweenCalls)
    /\ [][C2_SwapStep]_vars

\* three of the four cells of an all-Alive 2x2 grid are written, none is read back
C2_Witness ==
    /\ pc = "loop" /\ nx = 2 /\ ny = 2 /\ loop_ix = 1 /\ loop_iy = 1
    /\ cells = <<TRUE, TRUE, TRUE, TRUE>>
    /\ next_cells = <<TRUE, TRUE, TRUE, FALSE>>

(***************************************************************************)
(* lifegame-tui/src/app.rs, handler.rs, main.rs                            *)
(*                                                                         *)
(* An App is a record of its fields; calls is carried with it.  alive_prob *)
(* only weights the random cells: every vector of nx*ny cells can be       *)
(* drawn, and the one drawn is the argument fresh.  The counters saturate  *)
(* at 2^64 - 1, far above MaxGen and MaxPan.                               *)
(***************************************************************************)
Run == "Run"
Pause == "Pause"
Quit == "Quit"
AppState == {Run, Pause, Quit}

\* the App the variables hold
app ==
    [gen |-> gen, state |-> state, nx |-> app_nx, ny |-> app_ny,
     world |-> self, rendering_ix |-> rendering_ix,
     rendering_iy |-> rendering_iy, calls |-> calls]

\* u64/usize saturating_add(1), saturating_sub(1)
saturating_add(a, b) == a + b
saturating_sub(a, b) == IF a < b THEN 0 ELSE a - b

\* usize::saturating_add_signed
saturating_add_signed(a, shift) == IF a + shift < 0 THEN 0 ELSE a + shift

min(a, b) == IF a <= b THEN a ELSE b

\* self.world.next(), a call more on this World
world_next(a) ==
    LET r == next(a.world) IN
    IF r.kind = "panic" THEN Panic
    ELSE Ok([a EXCEPT !.world.cells = r.v.next_cells, !.calls = a.calls + 1])

world_new_keeping_border(a, c) ==
    LET r == new(a.nx, a.ny, c) IN
    IF r.kind = "err" THEN r
    ELSE Ok([a EXCEPT !.world = [r.v EXCEPT !.border = a.world.border],
                      !.calls = 0])

\* self.world = World::new(self.nx, self.ny, cells)?, a World with no call yet
world_new(a, c) ==
    LET r == new(a.nx, a.ny, c) IN
    IF r.kind = "err" THEN r
    ELSE Ok([a EXCEPT !.world = r.v, !.calls = 0])

can_reset_unless_quit(a) == a.state # Quit

\* App::can_reset
can_reset(a) == a.state = Pause

tick_counting_always(a) ==
    IF a.state = Run
    THEN world_next([a EXCEPT !.gen = saturating_add(a.gen, 1)])
    ELSE Ok([a EXCEPT !.gen = saturating_add(a.gen, 1)])

tick_unless_quit(a) ==
    IF a.state # Quit
    THEN world_next([a EXCEPT !.gen = saturating_add(a.gen, 1)])
    ELSE Ok(a)

\* App::tick
tick(a) ==
    IF a.state = Run
    THEN world_next([a EXCEPT !.gen = saturating_add(a.gen, 1)])
    ELSE Ok(a)

toggle_from_quit(a) ==
    IF a.state = Pause THEN [a EXCEPT !.state = Run]
    ELSE IF a.state = Run THEN [a EXCEPT !.state = Pause]
    ELSE [a EXCEPT !.state = Run]

\* App::toggle
toggle(a) ==
    IF a.state = Pause THEN [a EXCEPT !.state = Run]
    ELSE IF a.state = Run THEN [a EXCEPT !.state = Pause]
    ELSE a

\* App::reset, random_cells having drawn fresh
reset(a, fresh) ==
    IF can_reset(a)
    THEN LET r == world_new(a, fresh) IN
         IF r.kind = "err" THEN r
         ELSE Ok([r.v EXCEPT !.gen = 0, !.rendering_ix = 0, !.rendering_iy = 0])
    ELSE Ok(a)

\* App::calculate_panned_index
calculate_panned_index(current, shift, upper_limit) ==
    IF shift < 0
    THEN saturating_add_signed(current, shift)
    ELSE min(saturating_add_signed(current, shift), upper_limit)

\* App::pan_x
pan_x(a, shift) ==
    [a EXCEPT !.rendering_ix = calculate_panned_index(a.rendering_ix, shift, a.nx)]

\* App::pan_y
pan_y(a, shift) ==
    [a EXCEPT !.rendering_iy = calculate_panned_index(a.rendering_iy, shift, a.ny)]

\* App::quit
quit(a) == [a EXCEPT !.state = Quit]

\* the key events told apart by handle_key_events
KeyCodes == {"Esc", "q", "c", "C", "s", "r", "Left", "Right", "Up", "Down", "other"}
KeyModifiers == {"NONE", "CONTROL"}
KeyEvents == [code : KeyCodes, modifiers : KeyModifiers]

\* handle_key_events
handle_key_events(key_event, a, fresh) ==
    CASE key_event.code \in {"Esc", "q"} -> Ok(quit(a))
      [] key_event.code \in {"c", "C"} ->
            IF key_event.modifiers = "CONTROL" THEN Ok(quit(a)) ELSE Ok(a)
      [] key_event.code = "s" -> Ok(toggle(a))
      [] key_event.code = "r" -> reset(a, fresh)
      [] key_event.code = "Left" ->
            Ok([a EXCEPT !.rendering_ix = saturating_sub(a.rendering_ix, 1)])
      [] key_event.code = "Right" ->
            Ok([a EXCEPT !.rendering_ix = saturating_add(a.rendering_ix, 1)])
      [] key_event.code = "Up" ->
            Ok([a EXCEPT !.rendering_iy = saturating_sub(a.rendering_iy, 1)])
      [] key_event.code = "Down" ->
            Ok([a EXCEPT !.rendering_iy = saturating_add(a.rendering_iy, 1)])
      [] OTHER -> Ok(a)

\* the events of tui.events.next()
Events ==
    {[type |-> "Tick"], [type |-> "Mouse"], [type |-> "Resize"]}
        \cup {[type |-> "Key", key |-> k] : k \in KeyEvents}

\* the match of main's loop on the event
main_dispatch(ev, a, fresh) ==
    IF ev.type = "Tick" THEN tick(a)
    ELSE IF ev.type = "Key" THEN handle_key_events(ev.key, a, fresh)
    ELSE Ok(a)

(***************************************************************************)
(* SpecApp: the App from App::new on, its methods and handle_key_events    *)
(* called in any order, and the loop of main.  op names the last call;     *)
(* its arguments are not kept.                                             *)
(***************************************************************************)
\* App::default, random_cells having drawn c
InitApp ==
    /\ app_nx = AppNx /\ app_ny = AppNy
    /\ nx = app_nx /\ ny = app_ny
    /\ \E c \in BoolSeqs(app_nx * app_ny) :
          /\ new(app_nx, app_ny, c).kind = "ok"
          /\ cells = new(app_nx, app_ny, c).v.cells
          /\ border = new(app_nx, app_ny, c).v.border
    /\ built = TRUE /\ input = <<>>
    /\ gen = 0 /\ state = Pause
    /\ rendering_ix = 0 /\ rendering_iy = 0
    /\ calls = 0
    /\ op = "App::new" /\ args = <<>> /\ ret = Unit
    /\ NoLog /\ NoLoop /\ NoTwin

\* the process is alive: nothing has panicked
Alive == built /\ state \in AppState /\ ret.kind # "panic"

\* the App becomes r.v, or the call fails with r
Becomes(r, done) ==
    IF r.kind = "ok"
    THEN /\ gen' = r.v.gen /\ state' = r.v.state
         /\ app_nx' = r.v.nx /\ app_ny' = r.v.ny
         /\ nx' = r.v.world.nx /\ ny' = r.v.world.ny
         /\ cells' = r.v.world.cells /\ border' = r.v.world.border
         /\ rendering_ix' = r.v.rendering_ix /\ rendering_iy' = r.v.rendering_iy
         /\ calls' = r.v.calls
         /\ ret' = done
    ELSE /\ ret' = r
         /\ UNCHANGED <<appVars, nx, ny, cells, border>>

\* the cells random_cells may draw for a reset of App a
Draws(resets) == IF resets THEN BoolSeqs(app_nx * app_ny) ELSE {<<>>}

\* app.tick()
Tick ==
    /\ Alive
    /\ state = Run => gen < MaxGen
    /\ op' = "tick" /\ args' = <<>>
    /\ \E r \in {tick(app)} : Becomes(r, Unit)
    /\ UNCHANGED <<built, input, logVars, loopVars, twin>>

\* app.toggle()
Toggle ==
    /\ Alive
    /\ op' = "toggle" /\ args' = <<>>
    /\ \E r \in {Ok(toggle(app))} : Becomes(r, Unit)
    /\ UNCHANGED <<built, input, logVars, loopVars, twin>>

\* app.reset()
Reset ==
    /\ Alive
    /\ op' = "reset" /\ args' = <<>>
    /\ \E fresh \in Draws(can_reset(app)) :
          \E r \in {reset(app, fresh)} : Becomes(r, Ok("()"))
    /\ UNCHANGED <<built, input, logVars, loopVars, twin>>

\* app.pan_x(shift)
PanX(shift) ==
    /\ Alive
    /\ op' = "pan_x" /\ args' = <<>>
    /\ \E r \in {Ok(pan_x(app, shift))} : Becomes(r, Unit)
    /\ UNCHANGED <<built, input, logVars, loopVars, twin>>

\* app.pan_y(shift)
PanY(shift) ==
    /\ Alive
    /\ op' = "pan_y" /\ args' = <<>>
    /\ \E r \in {Ok(pan_y(app, shift))} : Becomes(r, Unit)
    /\ UNCHANGED <<built, input, logVars, loopVars, twin>>

\* app.quit()
QuitApp ==
    /\ Alive
    /\ op' = "quit" /\ args' = <<>>
    /\ \E r \in {Ok(quit(app))} : Becomes(r, Unit)
    /\ UNCHANGED <<built, input, logVars, loopVars, twin>>

\* the model takes an arrow key only from an offset below MaxPan
KeyInBounds(k) ==
    /\ k.code = "Right" => rendering_ix < MaxPan
    /\ k.code = "Down" => rendering_iy < MaxPan

\* handle_key_events(key_event, &mut app)
HandleKeyEvents(key_event) ==
    /\ Alive
    /\ KeyInBounds(key_event)
    /\ op' = "handle_key_events" /\ args' = <<>>
    /\ \E fresh \in Draws(key_event.code = "r" /\ can_reset(app)) :
          \E r \in {handle_key_events(key_event, app, fresh)} :
             Becomes(r, Ok("()"))
    /\ UNCHANGED <<built, input, logVars, loopVars, twin>>

\* one pass of the loop of main: while app.state != AppState::Quit
MainLoop(ev) ==
    /\ Alive
    /\ state # Quit
    /\ ev.type = "Tick" /\ state = Run => gen < MaxGen
    /\ ev.type = "Key" => KeyInBounds(ev.key)
    /\ op' = "main" /\ args' = <<>>
    /\ \E fresh \in Draws(ev.type = "Key" /\ ev.key.code = "r" /\ can_reset(app)) :
          \E r \in {main_dispatch(ev, app, fresh)} : Becomes(r, Unit)
    /\ UNCHANGED <<built, input, logVars, loopVars, twin>>

NextApp ==
    \/ Tick
    \/ Toggle
    \/ Reset
    \/ QuitApp
    \/ \E shift \in (-MaxShift)..MaxShift : PanX(shift)
    \/ \E shift \in (-MaxShift)..MaxShift : PanY(shift)
    \/ \E k \in KeyEvents : HandleKeyEvents(k)
    \/ \E ev \in Events : MainLoop(ev)

SpecApp == InitApp /\ [][NextApp]_vars

(***************************************************************************)
(* C10: App.gen is the number of next() calls applied to the current World *)
(* since World::new built it; a step changes gen only by adding one, with  *)
(* exactly one next() call, or by a reset in Pause that builds a new World *)
(* and sets gen to 0; and the cells a next() call leaves are the rule's    *)
(* result on the cells before it, whatever gen is.                         *)
(***************************************************************************)
C10_GenIsCalls == gen = calls

C10_Step ==
    /\ calls' = calls + 1 =>
          /\ gen' = gen + 1
          /\ \A k \in 0..(nx * ny - 1) : cells'[k + 1] = RuleAt(cells, border, k)
    /\ gen' # gen =>
          \/ gen' = gen + 1 /\ calls' = calls + 1
          \/ gen' = 0 /\ calls' = 0 /\ state = Pause
    /\ calls' \in {calls, calls + 1, 0}

C10_GenCountsTransitions == [](C10_GenIsCalls) /\ [][C10_Step]_vars

\* two ticks in Run
C10_Witness ==
    /\ op = "tick" /\ state = Run /\ gen = 2 /\ calls = 2

(***************************************************************************)
(* SpecAppWorld: the App with its pub field world in the caller's hands:   *)
(* tick, toggle and reset, and app.world.border(b), in any order.          *)
(***************************************************************************)
NextAppWorld ==
    \/ Tick
    \/ Toggle
    \/ Reset
    \/ \E b \in WorldBound : Border(b)

SpecAppWorld == InitApp /\ [][NextAppWorld]_vars

(***************************************************************************)
(* C11: the World that World::new returns has border Plane, and the App    *)
(* holding it has gen 0: so it is after App::new, and so it is after every *)
(* reset in Pause, whatever border() had set on the World it replaces.     *)
(***************************************************************************)
C11_New == op = "App::new" => (border = Plane /\ gen = 0 /\ calls = 0)

C11_ResetStep ==
    (op' = "reset" /\ state = Pause) =>
        (border' = Plane /\ gen' = 0 /\ calls' = 0)

C11_NewWorldPlaneGenZero == [](C11_New) /\ [][C11_ResetStep]_vars

\* a reset in Pause has built a new World
C11_Witness ==
    /\ op = "reset" /\ state = Pause /\ ret = Ok("()")
    /\ border = Plane /\ gen = 0 /\ calls = 0

(***************************************************************************)
(* C12 as claimed: World::new with nx = 0 or ny = 0 returns an error, the  *)
(* empty vector included.                                                  *)
(***************************************************************************)
C12_ZeroExtentFails ==
    (op = "new" /\ (args[1] = 0 \/ args[2] = 0)) => ret.kind = "err"

(***************************************************************************)
(* C13: on every World that World::new returns, 1x1, 1xN and Nx1 grids     *)
(* included, under Plane and under Torus and after any earlier next() and  *)
(* border() calls, next() and border() return without a panic, and the    *)
(* World is left one that next() and border() can be called on again.      *)
(***************************************************************************)
C13_NeverFails ==
    /\ op \in {"next", "border"} => ret = Unit
    /\ built /\ pc = "idle" /\ ret.kind # "panic"

\* next() on an all-Alive 1x3 grid under Torus
C13_Witness ==
    /\ op = "next" /\ ret = Unit /\ border = Torus /\ nx = 1 /\ ny = 3
    /\ pre = <<TRUE, TRUE, TRUE>> /\ counts = <<8, 8, 8>>

(***************************************************************************)
(* C14: the cell matrix has length nx*ny in every state, and no next() or  *)
(* border() call changes nx or ny.                                         *)
(***************************************************************************)
C14_Shape == Len(cells) = nx * ny

C14_DimsStep == nx' = nx /\ ny' = ny

C14_ShapeKept == [](C14_Shape) /\ [][C14_DimsStep]_vars

\* a border() call after a next() on a 3x2 grid
C14_Witness ==
    /\ op = "border" /\ nx = 3 /\ ny = 2 /\ Len(pre) = 6 /\ Len(cells) = 6
    /\ pre # cells

(***************************************************************************)
(* C15: if every cell is Dead, every cell is Dead after the next call,     *)
(* next() under Plane or Torus or border(): an all-Dead grid stays         *)
(* all-Dead for any number of calls.                                       *)
(***************************************************************************)
AllDead(c) == \A i \in 1..Len(c) : c[i] = CELL_DEAD

C15_DeadStep ==
    AllDead(cells) => (AllDead(cells') /\ Len(cells') = Len(cells))

C15_AllDeadFixedPoint == [][C15_DeadStep]_vars

\* next() under Torus has found a 3x3 grid all-Dead and left it all-Dead
C15_Witness ==
    /\ op = "next" /\ border = Torus /\ nx = 3 /\ ny = 3
    /\ Len(pre) = 9 /\ AllDead(pre) /\ AllDead(cells)

(***************************************************************************)
(* SpecTwin: two Worlds, each built by its own World::new call from the    *)
(* same (nx, ny, cells), and every next() and border(b) call made on both. *)
(***************************************************************************)
InitTwin ==
    /\ ValidWorld(0, MaxNx, MaxNy, MaxCells)
    /\ twin = new(args[1], args[2], args[3]).v

TwinNext_reading_first ==
    /\ built
    /\ op' = "next" /\ args' = <<>>
    /\ \E r \in {next(self)} :
        IF r.kind = "panic"
        THEN /\ ret' = Panic
             /\ UNCHANGED <<cells, twin>>
        ELSE \E t \in {next([twin EXCEPT !.cells = r.v.next_cells])} :
                IF t.kind = "panic"
                THEN /\ ret' = Panic
                     /\ UNCHANGED <<cells, twin>>
                ELSE /\ ret' = Unit
                     /\ cells' = r.v.next_cells
                     /\ twin' = [twin EXCEPT !.cells = t.v.next_cells]
    /\ UNCHANGED <<nx, ny, border, built, input, logVars, loopVars, appVars>>

\* world.next(); twin.next()
TwinNext ==
    /\ built
    /\ op' = "next" /\ args' = <<>>
    /\ \E r \in {next(self)}, t \in {next(twin)} :
        IF r.kind = "panic" \/ t.kind = "panic"
        THEN /\ ret' = Panic
             /\ UNCHANGED <<cells, twin>>
        ELSE /\ ret' = Unit
             /\ cells' = r.v.next_cells
             /\ twin' = [twin EXCEPT !.cells = t.v.next_cells]
    /\ UNCHANGED <<nx, ny, border, built, input, logVars, loopVars, appVars>>

\* world.border(b); twin.border(b)
TwinBorder(b) ==
    /\ built
    /\ op' = "border" /\ args' = <<b>> /\ ret' = Unit
    /\ border' = b
    /\ twin' = [twin EXCEPT !.border = b]
    /\ UNCHANGED <<nx, ny, cells, built, input, logVars, loopVars, appVars>>

NextTwin ==
    \/ TwinNext
    \/ \E b \in WorldBound : TwinBorder(b)

SpecTwin == InitTwin /\ [][NextTwin]_vars

Corners == {0, nx - 1, (ny - 1) * nx, nx * ny - 1}

\* cell number k is the only Alive cell of matrix c
OnlyAlive(c, k) == \A i \in 1..Len(c) : c[i] = (i = k + 1)

\* the count for cell number k of the pre-call matrix of the last next():
\* the one next() used, under the mode in force, and the one
\* self.neighbours gives for the same matrix under the other mode
CountUnder(mode, k) ==
    IF border = mode
    THEN counts[k + 1]
    ELSE count_set(neighbours([self EXCEPT !.cells = pre, !.border = mode],
                              k % nx, k \div nx).v)

(***************************************************************************)
(* C17 as claimed: on a grid whose only Alive cell is a corner cell, the   *)
(* count for that corner cell under Plane is strictly smaller than its     *)
(* count under Torus.                                                      *)
(***************************************************************************)
C17_CornerFewerUnderPlane ==
    (op = "next" /\ nx * ny >= 1) =>
        \A k \in Corners :
            OnlyAlive(pre, k) => CountUnder(Plane, k) < CountUnder(Torus, k)

(***************************************************************************)
(* C17 amended: on a grid whose only Alive cell is a corner cell, the      *)
(* count for that corner cell is 0 under Plane, and under Torus it is      *)
(* greater exactly when nx = 1 or ny = 1, where the cell wraps onto        *)
(* itself; the count that is strictly smaller under Plane than under Torus *)
(* on every grid is the one for the diagonally opposite corner cell.       *)
(***************************************************************************)
C17_CornerDivergence ==
    (op = "next" /\ nx * ny >= 1) =>
        \A k \in Corners :
            OnlyAlive(pre, k) =>
                /\ CountUnder(Plane, k) = 0
                /\ CountUnder(Torus, k) > 0 <=> (nx = 1 \/ ny = 1)
                /\ CountUnder(Plane, nx * ny - 1 - k)
                      < CountUnder(Torus, nx * ny - 1 - k)

\* next() under Torus on a 3x3 grid whose only Alive cell is corner (0,0):
\* count 0 for it, count 1 for corner (2,2)
C17_Witness ==
    /\ op = "next" /\ border = Torus /\ nx = 3 /\ ny = 3
    /\ OnlyAlive(pre, 0)
    /\ counts[1] = 0 /\ counts[9] = 1

\* the numbers of the interior cells of the grid
Interior ==
    {k \in 0..(nx * ny - 1) :
        /\ 1 <= k % nx /\ k % nx <= nx - 2
        /\ 1 <= k \div nx /\ k \div nx <= ny - 2}

(***************************************************************************)
(* C18: for every in-range coordinate get_cell_with_border returns         *)
(* cell(ix, iy) under Plane and under Torus; and after next() on a grid    *)
(* with nx, ny >= 3, every interior cell has the count, and the state,     *)
(* that the pre-call matrix gives it under Plane and under Torus alike.    *)
(***************************************************************************)
C18_InRangeReads ==
    \A x \in 0..(nx - 1), y \in 0..(ny - 1) : \A m \in WorldBound :
        get_cell_with_border([self EXCEPT !.border = m], x, y) = cell(self, x, y)

C18_InteriorSame ==
    (op = "next" /\ nx >= 3 /\ ny >= 3) =>
        \A k \in Interior :
            /\ CountUnder(Plane, k) = CountUnder(Torus, k)
            /\ \A m \in WorldBound :
                  cells[k + 1] = next_state(pre[k + 1], CountUnder(m, k))

C18_ModeOnlyOutOfRange == C18_InRangeReads /\ C18_InteriorSame

\* next() under Torus on a 3x3 grid: the interior cell is born on count 3
C18_Witness ==
    /\ op = "next" /\ border = Torus /\ nx = 3 /\ ny = 3
    /\ pre = <<TRUE, TRUE, TRUE, FALSE, FALSE, FALSE, FALSE, FALSE, FALSE>>
    /\ counts[5] = 3 /\ cells[5] = CELL_ALIVE

(***************************************************************************)
(* C19: App::new leaves state Pause and gen 0.  A tick in Run applies      *)
(* next() once to the World and adds one to gen; a tick in Pause or Quit   *)
(* changes neither gen nor any cell.  No step adds to gen or applies       *)
(* next() unless the state is Run and the step is a tick, called directly   *)
(* or by the loop of main, and the state becomes Run only from Pause, by   *)
(* toggle: the World does not advance before the first toggle.             *)
(***************************************************************************)
C19_Start == op = "App::new" => (state = Pause /\ gen = 0 /\ calls = 0)

C19_TickStep ==
    op' = "tick" =>
        IF state = Run
        THEN /\ gen' = gen + 1 /\ calls' = calls + 1
             /\ \A k \in 0..(nx * ny - 1) :
                   cells'[k + 1] = RuleAt(cells, border, k)
        ELSE gen' = gen /\ calls' = calls /\ cells' = cells

C19_OnlyInRunStep ==
    (calls' = calls + 1 \/ gen' = gen + 1) =>
        /\ state = Run /\ op' \in {"tick", "main"}
        /\ calls' = calls + 1 /\ gen' = gen + 1

C19_ToRunStep ==
    (state # Run /\ state' = Run) =>
        (state = Pause /\ op' \in {"toggle", "handle_key_events", "main"})

C19_TickOnlyInRun ==
    /\ [](C19_Start)
    /\ [][C19_TickStep /\ C19_OnlyInRunStep /\ C19_ToRunStep]_vars

\* a tick in Quit, after one tick in Run
C19_Witness ==
    /\ op = "tick" /\ state = Quit /\ gen = 1 /\ calls = 1

(***************************************************************************)
(* C20: a reset in Pause leaves a new World of the App's nx, ny, with no   *)
(* next() call on it, and gen, rendering_ix and rendering_iy 0; a reset in *)
(* Run or Quit, called directly or by the 'r' key, through                 *)
(* handle_key_events or the loop of main, changes neither the World nor    *)
(* gen nor the rendering offsets; and reset returns Ok in every state.     *)
(***************************************************************************)
C20_ResetStep ==
    op' = "reset" =>
        /\ ret' = Ok("()")
        /\ IF state = Pause
           THEN /\ nx' = app_nx /\ ny' = app_ny
                /\ app_nx' = app_nx /\ app_ny' = app_ny
                /\ Len(cells') = app_nx * app_ny
                /\ calls' = 0 /\ gen' = 0
                /\ rendering_ix' = 0 /\ rendering_iy' = 0
                /\ state' = Pause
           ELSE UNCHANGED <<nx, ny, cells, border, calls, gen,
                            rendering_ix, rendering_iy, state>>

C20_RKeyStep ==
    (/\ state # Pause
     /\ \E m \in KeyModifiers :
           \/ HandleKeyEvents([code |-> "r", modifiers |-> m])
           \/ MainLoop([type |-> "Key", key |-> [code |-> "r", modifiers |-> m]]))
        => /\ ret'.kind \in {"ok", "unit"}
           /\ UNCHANGED <<nx, ny, cells, border, calls, gen,
                          rendering_ix, rendering_iy, state>>

C20_ResetOnlyInPause == [][C20_ResetStep /\ C20_RKeyStep]_vars

\* a reset in Run, after a tick and a pan
C20_Witness ==
    /\ op = "reset" /\ ret = Ok("()") /\ state = Run
    /\ gen = 1 /\ calls = 1 /\ rendering_ix = 1

(***************************************************************************)
(* C21: state is Run, Pause or Quit in every state.  toggle turns Pause    *)
(* into Run and Run into Pause, leaves Quit alone and changes nothing      *)
(* else.  quit(), Esc, 'q' and Ctrl-C leave state Quit.  From Quit no call *)
(* changes state, gen or a cell or applies next(), and the loop of main    *)
(* handles no further event.                                               *)
(***************************************************************************)
C21_StateType == state \in AppState

C21_ToggleStep ==
    op' = "toggle" =>
        /\ state' = (IF state = Pause THEN Run
                     ELSE IF state = Run THEN Pause ELSE state)
        /\ UNCHANGED <<nx, ny, cells, border, calls, gen,
                       rendering_ix, rendering_iy>>

\* the key events that handle_key_events answers by app.quit()
QuitKeys ==
    {k \in KeyEvents :
        \/ k.code \in {"Esc", "q"}
        \/ k.code \in {"c", "C"} /\ k.modifiers = "CONTROL"}

C21_QuitCallStep ==
    /\ op' = "quit" => state' = Quit
    /\ (op' = "handle_key_events" /\ state' # Quit)
          => ~ \E k \in QuitKeys : HandleKeyEvents(k)

C21_QuitStep ==
    state = Quit =>
        /\ state' = Quit /\ op' # "main"
        /\ UNCHANGED <<nx, ny, cells, border, calls, gen>>

C21_QuitAbsorbing ==
    /\ [](C21_StateType)
    /\ [][C21_ToggleStep /\ C21_QuitCallStep /\ C21_QuitStep]_vars

\* a toggle in Quit, after a tick in Run
C21_Witness ==
    /\ op = "toggle" /\ state = Quit /\ gen = 1 /\ calls = 1

(***************************************************************************)
(* lifegame-tui/src/ui.rs: TableWorld::make_rows.  The World's lookup it   *)
(* calls, get_present_cell, is not in lib.rs; it is the cell read of the   *)
(* specification (4.2): the stored state for in-range coordinates,         *)
(* OutOfBounds otherwise.                                                  *)
(***************************************************************************)
get_present_cell(w, ix, iy) ==
    IF ix < 0 \/ iy < 0 \/ ix >= w.nx \/ iy >= w.ny
    THEN Err("OutOfBounds")
    ELSE Ok(w.cells[iy * w.nx + ix + 1])

make_rows_range_unclamped(from, extent, length) == from..(from + length - 1)

\* from..min(extent, from + length), the range of each loop of make_rows
make_rows_range(from, extent, length) == from..(min(extent, from + length) - 1)

\* the coordinates make_rows passes to get_present_cell
make_rows_lookups(a, width, height) ==
    make_rows_range(a.rendering_ix, a.nx, width)
        \X make_rows_range(a.rendering_iy, a.ny, height)

\* make_rows: the rows of cell states, or the failure of a lookup
make_rows(a, width, height) ==
    IF \E c \in make_rows_lookups(a, width, height) :
           get_present_cell(a.world, c[1], c[2]).kind = "err"
    THEN Err("OutOfBounds")
    ELSE Ok([i \in 1..Cardinality(make_rows_range(a.rendering_iy, a.ny, height)) |->
               [j \in 1..Cardinality(make_rows_range(a.rendering_ix, a.nx, width)) |->
                   get_present_cell(a.world, a.rendering_ix + j - 1,
                                    a.rendering_iy + i - 1).v]])

(***************************************************************************)
(* SpecView: the App panned by pan_x, pan_y and the arrow keys, reset,     *)
(* toggled and ticked, and drawn in an area of any width and height up to  *)
(* MaxView.                                                                *)
(***************************************************************************)
\* TableWorld::new(app, width, height).make_rows()
Draw(width, height) ==
    /\ Alive
    /\ op' = "make_rows" /\ args' = <<width, height>>
    /\ ret' = make_rows(app, width, height)
    /\ UNCHANGED <<worldVars, appVars, logVars, loopVars, twin>>

ArrowKeys == {k \in KeyEvents : k.code \in {"Left", "Right", "Up", "Down"}}

NextView ==
    \/ Tick
    \/ Toggle
    \/ Reset
    \/ \E shift \in (-MaxShift)..MaxShift : PanX(shift)
    \/ \E shift \in (-MaxShift)..MaxShift : PanY(shift)
    \/ \E k \in ArrowKeys : HandleKeyEvents(k)
    \/ \E width \in 0..MaxView, height \in 0..MaxView : Draw(width, height)

SpecView == InitApp /\ [][NextView]_vars

(***************************************************************************)
(* C22: every coordinate (ix, iy) that make_rows passes to the World's     *)
(* cell lookup has ix < nx and iy < ny, whatever the rendering offsets,    *)
(* the width and the height, so no lookup fails; and with rendering_ix >=  *)
(* nx or rendering_iy >= ny make_rows passes none.                         *)
(***************************************************************************)
C22_RenderInGrid ==
    op = "make_rows" =>
        /\ \A c \in make_rows_lookups(app, args[1], args[2]) :
              c[1] >= 0 /\ c[1] < nx /\ c[2] >= 0 /\ c[2] < ny
        /\ ret.kind = "ok"
        /\ (rendering_ix >= nx \/ rendering_iy >= ny)
              => make_rows_lookups(app, args[1], args[2]) = {}

\* make_rows from offset (1, 0) of the 2x1 grid, the area wider and higher
\* than what is left of the grid
C22_Witness ==
    /\ op = "make_rows" /\ args = <<2, 2>> /\ nx = 2 /\ ny = 1
    /\ rendering_ix = 1 /\ rendering_iy = 0
    /\ make_rows_lookups(app, 2, 2) = {<<1, 0>>}
    /\ ret = Ok(<< <<cells[2]>> >>)

(***************************************************************************)
(* C23 as claimed: in every state 0 <= rendering_ix <= nx and              *)
(* 0 <= rendering_iy <= ny.                                                *)
(***************************************************************************)
C23_OffsetsInGrid ==
    /\ 0 <= rendering_ix /\ rendering_ix <= nx
    /\ 0 <= rendering_iy /\ rendering_iy <= ny

(***************************************************************************)
(* lifegame-core/src/legacy.rs: the World with a padding ring.  Its names  *)
(* carry the prefix legacy_; a World is the record of config.nx,           *)
(* config.ny, config.cells and the bound of its locator.                   *)
(***************************************************************************)
\* bits[i] on a slice: panics unless i < len
slice_index(bits, i) ==
    IF i >= 0 /\ i < Len(bits) THEN Ok(bits[i + 1]) ELSE Panic

\* the loops of to_bitvec from their k-th iteration on (iy outer, ix inner,
\* both from 1: iteration k is (1 + k % nx, 1 + k \div nx))
RECURSIVE legacy_to_bitvec_loop(_, _, _, _, _)
legacy_to_bitvec_loop(n_x, n_y, bits, bitvec, k) ==
    IF k >= n_x * n_y THEN Ok(bitvec)
    ELSE LET ix == 1 + (k % n_x)
             iy == 1 + (k \div n_x)
             bit == slice_index(bits, (n_x - 1) * (iy - 1) + ix - 1)
         IN  IF bit.kind = "panic" THEN Panic
             ELSE LET set == bitvec_set(bitvec, n_x * iy + ix, bit.v)
                  IN  IF set.kind = "panic" THEN Panic
                      ELSE legacy_to_bitvec_loop(n_x, n_y, bits, set.v, k + 1)

\* to_bitvec(nx, ny, bits) of legacy.rs
legacy_to_bitvec(n_x, n_y, bits) ==
    legacy_to_bitvec_loop(n_x, n_y, bits,
                          from_elem((n_x + 2) * (n_y + 2), CELL_DEAD), 0)

\* World::new of legacy.rs
legacy_new(n_x, n_y, c) ==
    IF Len(c) # n_x * n_y
    THEN Err("invalid cell size.")
    ELSE LET b == legacy_to_bitvec(n_x, n_y, c) IN
         IF b.kind = "panic" THEN Panic
         ELSE Ok([nx |-> n_x + 2, ny |-> n_y + 2, cells |-> b.v, border |-> Plane])

\* CellLocatable::get_cell_index
legacy_locator_get_cell_index(w, ix, iy) == iy * w.nx + ix

\* CellLocatable::get_cell, the same for both locators
legacy_locator_get_cell(w, ix, iy) ==
    bitvec_index(w.cells, legacy_locator_get_cell_index(w, ix, iy))

\* World::get_cell_index of legacy.rs
legacy_get_cell_index(w, ix, iy) == ix + iy

\* World::get_cell of legacy.rs
legacy_get_cell(w, ix, iy) == legacy_locator_get_cell(w, ix, iy)

\* World::count_alive_neighbours of legacy.rs
legacy_count_alive_neighbours(w, ix, iy) ==
    LET looked == << legacy_get_cell(w, ix - 1, iy - 1),
                     legacy_get_cell(w, ix, iy - 1),
                     legacy_get_cell(w, ix + 1, iy - 1),
                     legacy_get_cell(w, ix - 1, iy),
                     legacy_get_cell(w, ix + 1, iy),
                     legacy_get_cell(w, ix - 1, iy + 1),
                     legacy_get_cell(w, ix, iy + 1),
                     legacy_get_cell(w, ix + 1, iy + 1) >>
    IN  IF \E i \in 1..8 : looked[i].kind = "panic"
        THEN Panic
        ELSE Ok(Cardinality({i \in 1..8 : looked[i].v}))

\* the loops of World::next of legacy.rs from their k-th iteration on:
\* iy in 1..config.ny + 1 outer, ix in 1..config.nx + 1 inner
RECURSIVE legacy_next_loop(_, _, _)
legacy_next_loop(w, buf, k) ==
    IF k >= w.nx * w.ny THEN Ok(buf)
    ELSE LET ix == 1 + (k % w.nx)
             iy == 1 + (k \div w.nx)
             c == legacy_get_cell(w, ix, iy)
         IN  IF c.kind = "panic" THEN Panic
             ELSE LET n == legacy_count_alive_neighbours(w, ix, iy) IN
                  IF n.kind = "panic" THEN Panic
                  ELSE LET set == bitvec_set(buf, legacy_get_cell_index(w, ix, iy),
                                             n.v = 3 \/ (n.v = 2 /\ c.v))
                       IN  IF set.kind = "panic" THEN Panic
                           ELSE legacy_next_loop(w, set.v, k + 1)

\* World::next of legacy.rs: the new config.cells, or a panic
legacy_next(w) == legacy_next_loop(w, from_elem(Len(w.cells), FALSE), 0)

\* the World of legacy.rs held in nx, ny (config.nx, config.ny),
\* cells (config.cells) and border (the bound of the locator)
legacy_self == [nx |-> nx, ny |-> ny, cells |-> cells, border |-> border]

\* no World of legacy.rs yet
InitLegacy ==
    /\ nx = 0 /\ ny = 0 /\ cells = <<>> /\ border = Plane
    /\ built = FALSE /\ input = <<>>
    /\ op = "none" /\ args = <<>> /\ ret = Unit
    /\ NoLog /\ NoLoop /\ NoApp /\ NoTwin

\* let world = legacy::World::new(n_x, n_y, c), the first call of a behaviour
LegacyNew(n_x, n_y, c) ==
    /\ ~built /\ op = "none"
    /\ op' = "new" /\ args' = <<n_x, n_y, c>>
    /\ \E r \in {legacy_new(n_x, n_y, c)} :
        IF r.kind = "ok"
        THEN /\ nx' = r.v.nx /\ ny' = r.v.ny /\ cells' = r.v.cells
             /\ border' = r.v.border
             /\ built' = TRUE /\ input' = c
             /\ ret' = Ok("World")
        ELSE /\ ret' = r
             /\ UNCHANGED worldVars
    /\ UNCHANGED <<logVars, loopVars>>
    /\ UNCHANGED <<appVars, twin>>

\* world.set_bound(wb)
LegacySetBound(wb) ==
    /\ built /\ ret.kind # "panic"
    /\ border' = wb
    /\ op' = "set_bound" /\ args' = <<wb>> /\ ret' = Unit
    /\ UNCHANGED <<nx, ny, cells, built, input, logVars, loopVars>>
    /\ UNCHANGED <<appVars, twin>>

\* world.next(); a panic leaves config.cells as it was
LegacyNext ==
    /\ built /\ ret.kind # "panic"
    /\ op' = "next" /\ args' = <<>>
    /\ \E r \in {legacy_next(legacy_self)} :
        IF r.kind = "ok"
        THEN /\ cells' = r.v /\ ret' = Unit
        ELSE /\ ret' = r /\ UNCHANGED cells
    /\ UNCHANGED <<nx, ny, border, built, input, logVars, loopVars>>
    /\ UNCHANGED <<appVars, twin>>

NextLegacy ==
    \/ /\ op = "none"
       /\ \E n_x \in 0..LNx, n_y \in 0..LNy, len \in 0..(LNx * LNy + 1) :
             \E c \in BoolSeqs(len) : LegacyNew(n_x, n_y, c)
    \/ \E wb \in WorldBound : LegacySetBound(wb)
    \/ LegacyNext

SpecLegacy == InitLegacy /\ [][NextLegacy]_vars

\* the padded coordinates of the padding ring of an n_x by n_y grid
Ring(n_x, n_y) ==
    {p \in (0..(n_x + 1)) \X (0..(n_y + 1)) :
        p[1] \in {0, n_x + 1} \/ p[2] \in {0, n_y + 1}}

\* C24: after legacy World::new(n_x, n_y, c) succeeds, the matrix has
\* (n_x+2)*(n_y+2) cells, the input cell c[iy*n_x+ix] is stored at flat
\* index (iy+1)*(n_x+2) + (ix+1), and every cell of the padding ring is Dead.
C24_PaddedLayout ==
    (op = "new" /\ ret.kind = "ok") =>
        LET n_x == args[1]
            n_y == args[2]
        IN  /\ Len(cells) = (n_x + 2) * (n_y + 2)
            /\ \A ix \in 0..(n_x - 1), iy \in 0..(n_y - 1) :
                   cells[(iy + 1) * (n_x + 2) + (ix + 1) + 1] = args[3][iy * n_x + ix + 1]
            /\ \A p \in Ring(n_x, n_y) :
                   cells[p[2] * (n_x + 2) + p[1] + 1] = CELL_DEAD

\* C25: legacy World::next() never fails on a constructed World: it returns
\* normally, keeps the matrix at its length and leaves the padding ring Dead.
C25_LegacyNextTotal ==
    op = "next" =>
        /\ ret = Unit
        /\ Len(cells) = nx * ny
        /\ \A p \in Ring(nx - 2, ny - 2) : cells[p[2] * nx + p[1] + 1] = CELL_DEAD

(***************************************************************************)
(* C5: cell(ix, iy) with ix >= nx or iy >= ny fails and returns no cell    *)
(* value.                                                                  *)
(***************************************************************************)
C5_OutOfBounds ==
    (op = "cell" /\ (args[1] >= nx \/ args[2] >= ny)) => ret.kind = "panic"

====
